---- MODULE Spec2Model ----
(***************************************************************************)
(* Model of the Norwegian TIN validator (src/src/lib.rs).                  *)
(*                                                                         *)
(* A string is a sequence of bytes (0..255); a digit sequence is a         *)
(* sequence of u8 values.  NorwegianTin::parse, Into<String> and Display   *)
(* are pure functions and are modelled as operators; the state machine     *)
(* applies them to an input drawn from a bounded family of strings.        *)
(*                                                                         *)
(* Unsigned arithmetic is modelled on the mathematical integers with an    *)
(* explicit range test at every step: a step whose result leaves the       *)
(* width of its Rust type, or an index outside its array, yields the       *)
(* outcome "Panic" (what a build with overflow checks does).               *)
(***************************************************************************)
EXTENDS Integers, Sequences, FiniteSets

VARIABLES input, pc, result, text, reparsed, shown

vars == <<input, pc, result, text, reparsed, shown>>

(***************************************************************************)
(* Program constants                                                       *)
(***************************************************************************)
SEQUENCE_FIRST_CHECKSUM_DIGITS == <<3, 7, 6, 1, 8, 9, 4, 5, 2>>
\* faulty variant: the last weight of the second pass is mistyped
SEQUENCE_SECOND_CHECKSUM_DIGITS_typo == <<5, 4, 3, 2, 7, 6, 5, 4, 3, 4>>

SEQUENCE_SECOND_CHECKSUM_DIGITS == <<5, 4, 3, 2, 7, 6, 5, 4, 3, 2>>
TIN_LENGTH == 11
ORG_LENGTH == 9
SEQUENCE_ORG_CHECKSUM_DIGITS == <<3, 2, 7, 6, 5, 4, 3, 2>>

\* b'0' and b'9'
Byte0 == 48
Byte9 == 57
\* b'*'
ByteStar == 42

\* the range of a u8, and the test that a value fits a u32
U8 == 0..255
InU32(x) == x >= 0 /\ x \div 65536 < 65536

(***************************************************************************)
(* Result<NorwegianTin, NorwegianTinError>, plus the outcome of a panic    *)
(***************************************************************************)
NoValue == <<>>

Ok(variant, kind, value) ==
    [tag |-> "Ok", err |-> "None", variant |-> variant, kind |-> kind, value |-> value]

Err(e) ==
    [tag |-> "Err", err |-> e, variant |-> "None", kind |-> "None", value |-> NoValue]

Panicked ==
    [tag |-> "Panic", err |-> "None", variant |-> "None", kind |-> "None", value |-> NoValue]

NotRun ==
    [tag |-> "NotRun", err |-> "None", variant |-> "None", kind |-> "None", value |-> NoValue]

(***************************************************************************)
(* NorwegianTin::get_value, NorwegianTin::get_kind                         *)
(***************************************************************************)
get_value(tin) == tin.value

get_kind(tin) ==
    IF tin.variant = "OrgNumber" THEN "Normal" ELSE tin.kind

(***************************************************************************)
(* The gate of parse: the length test and the byte loop                    *)
(***************************************************************************)
length_rejected(bytes) ==
    Len(bytes) # TIN_LENGTH /\ Len(bytes) # ORG_LENGTH

\* faulty variant: the upper bound of the byte test is missing
is_non_numeric_no_upper(b) ==
    b < Byte0

is_non_numeric(b) ==
    b < Byte0 \/ b > Byte9

\* The loop `for (i, &b) in bytes.iter().enumerate()`: the first index at
\* which the loop leaves its normal course, and how.  At index i the byte
\* test comes first, then b - b'0' (u8), then the write digits[i], which
\* needs i < TIN_LENGTH.
scan_digits(bytes) ==
    LET stops == {i \in 1..Len(bytes) :
                     \/ is_non_numeric(bytes[i])
                     \/ bytes[i] - Byte0 \notin U8
                     \/ i > TIN_LENGTH}
    IN  IF stops = {}
        THEN "Ok"
        ELSE LET i == CHOOSE j \in stops : \A k \in stops : j <= k
             IN  IF is_non_numeric(bytes[i]) THEN "NonNumericValue" ELSE "Panic"

\* let mut digits = [0u8; TIN_LENGTH], after the loop has run to its end
digits_of(bytes) ==
    [i \in 1..TIN_LENGTH |-> IF i <= Len(bytes) THEN bytes[i] - Byte0 ELSE 0]

(***************************************************************************)
(* The checksum engine                                                     *)
(***************************************************************************)
\* faulty variant: the reduction modulo 11 of 11 - r is missing
org_matcher_no_mod(digits, r) ==
    IF 11 - r \notin U8
    THEN "Panic"
    ELSE LET v == 11 - r
         IN  IF v = 10 THEN "InvalidChecksum"
             ELSE IF v = digits[9] THEN "Ok"
             ELSE "InvalidChecksum"

\* the closure given to calculate_checksum on the 9-digit path
org_matcher(digits, r) ==
    IF 11 - r \notin U8
    THEN "Panic"
    ELSE LET v == (11 - r) % 11
         IN  IF v = 10 THEN "InvalidChecksum"
             ELSE IF v = digits[9] THEN "Ok"
             ELSE "InvalidChecksum"

\* faulty variant: the first pass accepts the remainder 0 only
first_matcher_exact(digits, r) ==
    IF r + digits[10] \notin U8
    THEN "Panic"
    ELSE IF (r + digits[10]) % 11 = 0 THEN "Ok" ELSE "InvalidChecksum"

\* the closure of the first pass of the 11-digit path
first_matcher(digits, r) ==
    IF r + digits[10] \notin U8
    THEN "Panic"
    ELSE IF (r + digits[10]) % 11 \in 0..3 THEN "Ok" ELSE "InvalidChecksum"

\* the closure of the second pass of the 11-digit path
second_matcher(digits, r) ==
    IF r + digits[11] \notin U8
    THEN "Panic"
    ELSE IF (r + digits[11]) % 11 = 0 THEN "Ok" ELSE "InvalidChecksum"

\* The closures are passed by name: matcher names the closure, captured is
\* the digits array the closure borrows.
call_matcher(matcher, captured, r) ==
    CASE matcher = "org"    -> org_matcher(captured, r)
      [] matcher = "first"  -> first_matcher(captured, r)
      [] matcher = "second" -> second_matcher(captured, r)

RECURSIVE weighted_sum(_, _, _)
\* weights.iter().zip(digits.iter()).map(|(&w, &d)| w as u32 * d as u32).sum(),
\* the terms k..n
weighted_sum(digits, weights, k) ==
    IF k > Len(weights) \/ k > Len(digits)
    THEN 0
    ELSE weights[k] * digits[k] + weighted_sum(digits, weights, k + 1)

calculate_checksum(digits, weights, matcher, captured) ==
    LET sum == weighted_sum(digits, weights, 1)
    IN  IF ~InU32(sum)
        THEN "Panic"
        ELSE call_matcher(matcher, captured, sum % 11)

(***************************************************************************)
(* The category classifier and the date reconstructor                      *)
(***************************************************************************)
check_kind(month) ==
    CASE month \in 0..1 -> "Normal"
      [] month \in 4..5 -> "HNumber"
      [] month \in 6..7 -> "Anonymous"
      [] month \in 8..9 -> "Synthetic"
      [] OTHER          -> "InvalidDate"

\* faulty variant: the Anonymous arm subtracts the offset of the Synthetic arm
get_base_month_wrong_arm(kind, month) ==
    CASE kind = "Normal"    -> month
      [] kind = "HNumber"   -> month - 40
      [] kind = "Anonymous" -> month - 80
      [] kind = "Synthetic" -> month - 80

\* faulty variant: the H-number offset is 30 instead of 40
get_base_month_h30(kind, month) ==
    CASE kind = "Normal"    -> month
      [] kind = "HNumber"   -> month - 30
      [] kind = "Anonymous" -> month - 60
      [] kind = "Synthetic" -> month - 80

\* PersonKind::get_base_month; the result is a u8 (see date_fields_fit)
get_base_month(kind, month) ==
    CASE kind = "Normal"    -> month
      [] kind = "HNumber"   -> month - 40
      [] kind = "Anonymous" -> month - 60
      [] kind = "Synthetic" -> month - 80

\* faulty variant: the last day of the month is rejected
is_valid_date_strict(day, month, year) ==
    IF month = 0 \/ month > 12 \/ day = 0 \/ year >= 100
    THEN FALSE
    ELSE CASE month \in {1, 3, 5, 7, 8, 10, 12} -> day < 31
           [] month \in {4, 6, 9, 11}           -> day < 30
           [] month = 2 -> day < (IF year % 4 = 0 THEN 29 ELSE 28)
           [] OTHER -> FALSE

\* each arm gives days_in_month and the function ends with
\* day <= days_in_month; the arm `_` returns false
is_valid_date(day, month, year) ==
    IF month = 0 \/ month > 12 \/ day = 0 \/ year >= 100
    THEN FALSE
    ELSE CASE month \in {1, 3, 5, 7, 8, 10, 12} -> day <= 31
           [] month \in {4, 6, 9, 11}           -> day <= 30
           [] month = 2 -> day <= (IF year % 4 = 0 THEN 29 ELSE 28)
           [] OTHER -> FALSE

\* let day = digits[0] * 10 + digits[1];
raw_day(digits) == digits[1] * 10 + digits[2]

\* digits[2] * 10 + digits[3], the argument of get_base_month
raw_month(digits) == digits[3] * 10 + digits[4]

\* let year = digits[4] as u16 * 10 + digits[5] as u16;
year_of(digits) == digits[5] * 10 + digits[6]

\* Ok(NorwegianTin::FNumber(PersonNumber { kind: kind, value: digits }))
f_number(kind, digits) == Ok("FNumber", kind, digits)

\* faulty variant: the D-number stores the day with the offset 40 removed
d_number_adjusted(kind, digits) ==
    Ok("DNumber", kind, [digits EXCEPT ![1] = digits[1] - 4])

\* Ok(NorwegianTin::DNumber(PersonNumber { kind: kind, value: digits }))
d_number(kind, digits) == Ok("DNumber", kind, digits)

\* every u8 step of lines 155-156 stays in the range of a u8
date_fields_fit(digits, kind) ==
    /\ digits[1] * 10 \in U8
    /\ raw_day(digits) \in U8
    /\ digits[3] * 10 \in U8
    /\ raw_month(digits) \in U8
    /\ get_base_month(kind, raw_month(digits)) \in U8

\* lines 153-181: the category, the date fields, the F/D discrimination
classify_person(digits) ==
    LET kind == check_kind(digits[3])
    IN  IF kind = "InvalidDate"
        THEN Err("InvalidDate")
        ELSE IF ~date_fields_fit(digits, kind)
        THEN Panicked
        ELSE LET day   == raw_day(digits)
                 month == get_base_month(kind, raw_month(digits))
                 year  == year_of(digits)
             IN  CASE digits[1] \in 0..3 ->
                        IF ~is_valid_date(day, month, year)
                        THEN Err("InvalidDate")
                        ELSE f_number(kind, digits)
                   [] digits[1] \in 4..7 ->
                        IF day - 40 \notin U8
                        THEN Panicked
                        ELSE IF ~is_valid_date(day - 40, month, year)
                        THEN Err("InvalidDate")
                        ELSE d_number(kind, digits)
                   [] OTHER -> Err("InvalidDate")

\* lines 120-135
parse_org(digits) ==
    LET c == calculate_checksum(SubSeq(digits, 1, 8), SEQUENCE_ORG_CHECKSUM_DIGITS,
                                "org", digits)
    IN  CASE c = "Panic" -> Panicked
          [] c = "InvalidChecksum" -> Err("InvalidChecksum")
          [] c = "Ok" -> Ok("OrgNumber", "None", SubSeq(digits, 1, 9))

\* lines 137-181
parse_person(digits) ==
    LET c1 == calculate_checksum(SubSeq(digits, 1, 9), SEQUENCE_FIRST_CHECKSUM_DIGITS,
                                 "first", digits)
    IN  CASE c1 = "Panic" -> Panicked
          [] c1 = "InvalidChecksum" -> Err("InvalidChecksum")
          [] c1 = "Ok" ->
               LET c2 == calculate_checksum(SubSeq(digits, 1, 10),
                                            SEQUENCE_SECOND_CHECKSUM_DIGITS,
                                            "second", digits)
               IN  CASE c2 = "Panic" -> Panicked
                     [] c2 = "InvalidChecksum" -> Err("InvalidChecksum")
                     [] c2 = "Ok" -> classify_person(digits)

parse(bytes) ==
    IF length_rejected(bytes)
    THEN Err("InvalidLength")
    ELSE LET scan == scan_digits(bytes)
         IN  CASE scan = "NonNumericValue" -> Err("NonNumericValue")
               [] scan = "Panic" -> Panicked
               [] scan = "Ok" ->
                    IF Len(bytes) = ORG_LENGTH
                    THEN parse_org(digits_of(bytes))
                    ELSE parse_person(digits_of(bytes))

\* impl FromStr for NorwegianTin
from_str(s) == parse(s)

(***************************************************************************)
(* impl Into<String> and impl Display for NorwegianTin                     *)
(***************************************************************************)
\* faulty variant: the digits are not mapped to their ASCII characters
into_string_raw(tin) ==
    get_value(tin)

into_string(tin) ==
    LET bytes == get_value(tin)
    IN  [i \in 1..Len(bytes) |-> bytes[i] + Byte0]

\* " (Anonymous) ", " (H-Number) ", " (Synthetic) ", ""
kind_label(kind) ==
    CASE kind = "Anonymous" -> <<32, 40, 65, 110, 111, 110, 121, 109, 111, 117, 115, 41, 32>>
      [] kind = "HNumber"   -> <<32, 40, 72, 45, 78, 117, 109, 98, 101, 114, 41, 32>>
      [] kind = "Synthetic" -> <<32, 40, 83, 121, 110, 116, 104, 101, 116, 105, 99, 41, 32>>
      [] kind = "Normal"    -> <<>>

\* faulty variant: one mask character for each digit that is not shown
fmt_mask_rest(tin) ==
    LET s == into_string(tin)
    IN  kind_label(get_kind(tin)) \o SubSeq(s, 1, 6)
          \o [i \in 1..(Len(s) - 6) |-> ByteStar]

\* write!(f, "{}{}*****", kind, &s[0..6])
fmt(tin) ==
    LET s == into_string(tin)
    IN  kind_label(get_kind(tin)) \o SubSeq(s, 1, 6)
          \o <<ByteStar, ByteStar, ByteStar, ByteStar, ByteStar>>

(***************************************************************************)
(* The inputs: bounded families of strings                                 *)
(***************************************************************************)
Digit == 0..9

\* the ASCII string of a digit sequence
Ascii(ds) == [i \in 1..Len(ds) |-> ds[i] + Byte0]

\* Bounds of the families
MaxYear == 2
MaxInd == 1
MaxLen == 12

\* Date sweep: every day field and month field, the two-digit years
\* 00, 06, 12, ... (MaxYear + 1 of them: leap and common years, with a last
\* digit that is or is not a multiple of 4), the individual digits 000, and
\* the control digits that the modulus-11 rule gives (all four values of the
\* first control digit's window).
SweepYears == {(6 * k) % 100 : k \in 0..MaxYear}

ControlTails(p) ==
    LET r1 == weighted_sum(p, SEQUENCE_FIRST_CHECKSUM_DIGITS, 1) % 11
        k1s == {k \in Digit : (r1 + k) % 11 \in 0..3}
        k2(k1) == (11 - (weighted_sum(p \o <<k1>>, SEQUENCE_SECOND_CHECKSUM_DIGITS, 1) % 11)) % 11
    IN  {<<k1, k2(k1)>> : k1 \in {k \in k1s : k2(k) \in Digit}}

DateInput(s) ==
    \E a \in Digit, b \in Digit, c \in Digit, d \in Digit, y \in SweepYears :
        LET p == <<a, b, c, d, y \div 10, y % 10, 0, 0, 0>>
        IN  \E t \in ControlTails(p) : s = Ascii(p \o t)

\* Checksum sweep: a few date fields (valid and invalid ones), individual
\* digits up to MaxInd, every pair of control digits.
CheckBases ==
    {<<1, 1, 0, 1, 0, 0>>, <<1, 6, 0, 5, 7, 9>>, <<2, 2, 5, 1, 7, 1>>,
     <<0, 8, 6, 3, 9, 8>>, <<7, 0, 8, 8, 7, 1>>, <<9, 9, 2, 9, 9, 9>>,
     <<0, 0, 0, 0, 0, 0>>, <<3, 1, 0, 2, 0, 1>>}

CheckInput(s) ==
    \E b \in CheckBases, x \in 0..MaxInd, y \in 0..MaxInd, z \in 0..MaxInd,
       k1 \in Digit, k2 \in Digit :
        s = Ascii(b \o <<x, y, z, k1, k2>>)

\* Organization sweep: a few 6-digit bases, every 7th, 8th and 9th digit.
OrgBases ==
    {<<9, 0, 5, 6, 6, 1>>, <<0, 8, 5, 6, 4, 9>>, <<0, 0, 0, 0, 0, 0>>,
     <<9, 9, 9, 9, 9, 9>>}

OrgInput(s) ==
    \E b \in OrgBases, x \in Digit, y \in Digit, c \in Digit :
        s = Ascii(b \o <<x, y, c>>)

\* Gate sweep: digit strings of every length up to MaxLen, and the same
\* strings with one character replaced by a character that is not a digit
\* (one- and two-byte UTF-8 characters).
GateBases ==
    {<<1, 6, 0, 5, 7, 9, 0, 2, 2, 8, 4>>, <<9, 0, 5, 6, 6, 1, 8, 3, 3>>,
     <<0, 0, 0, 0, 0, 0, 0, 0, 0, 0, 0>>, <<1, 2, 3, 4, 5, 6, 7, 8, 9, 0, 1>>}

Extend(b, n) == [i \in 1..n |-> b[((i - 1) % Len(b)) + 1]]

ForeignChars ==
    {<<47>>, <<58>>, <<97>>, <<32>>, <<45>>, <<195, 169>>, <<217, 161>>}

Splice(s, i, c) == SubSeq(s, 1, i - 1) \o c \o SubSeq(s, i + Len(c), Len(s))

GateInput(s) ==
    \/ \E b \in GateBases, n \in 0..MaxLen :
          \/ s = Ascii(Extend(b, n))
          \/ \E i \in 1..n, c \in ForeignChars : s = Splice(Ascii(Extend(b, n)), i, c)
    \/ \E n \in 1..MaxLen : s = [i \in 1..n |-> 97]

\* every string of one digit repeated 11 times
RepeatedInput(s) ==
    \E k \in Digit : s = [i \in 1..TIN_LENGTH |-> k + Byte0]

\* inputs of the repository's tests
TestInputs ==
    {Ascii(<<1, 1, 0, 1, 0, 0, 0, 0, 0, 0, 0>>), Ascii(<<1, 1, 0, 1, 0, 0, 0, 0, 0, 1, 9>>),
     Ascii(<<1, 1, 0, 1, 0, 0, 0, 0, 0, 2, 7>>), Ascii(<<1, 1, 0, 1, 0, 0, 0, 0, 0, 3, 5>>),
     Ascii(<<1, 1, 0, 0, 1, 0, 0, 0, 0, 7, 3>>), Ascii(<<1, 6, 0, 5, 7, 9, 0, 2, 2, 8, 4>>),
     Ascii(<<2, 2, 5, 1, 7, 1, 4, 9, 2, 6, 1>>), Ascii(<<0, 8, 6, 3, 9, 8, 1, 5, 3, 1, 6>>),
     Ascii(<<7, 0, 8, 8, 7, 1, 0, 0, 7, 9, 7>>), Ascii(<<9, 0, 5, 6, 6, 1, 8, 3, 3>>),
     Ascii(<<9, 0, 5, 6, 6, 1, 8, 3, 4>>), Ascii(<<1, 2, 3, 4, 5, 6, 7, 8, 9, 0, 1>>)}

(***************************************************************************)
(* The state machine: a caller parses a string, then renders the value or  *)
(* converts it to its string and parses that again.                        *)
(***************************************************************************)
Init ==
    /\ \/ DateInput(input)
       \/ CheckInput(input)
       \/ OrgInput(input)
       \/ GateInput(input)
       \/ RepeatedInput(input)
       \/ input \in TestInputs
    /\ pc = "ready"
    /\ result = NotRun
    /\ text = <<>>
    /\ reparsed = NotRun
    /\ shown = <<>>

\* NorwegianTin::parse(input)
Parse ==
    /\ pc = "ready"
    /\ result' = parse(input)
    /\ pc' = "parsed"
    /\ UNCHANGED <<input, text, reparsed, shown>>

\* let s: String = tin.into()
Into ==
    /\ pc = "parsed"
    /\ result.tag = "Ok"
    /\ text' = into_string(result)
    /\ pc' = "converted"
    /\ UNCHANGED <<input, result, reparsed, shown>>

\* s.parse::<NorwegianTin>()
FromStr ==
    /\ pc = "converted"
    /\ reparsed' = from_str(text)
    /\ pc' = "reparsed"
    /\ UNCHANGED <<input, result, text, shown>>

\* format!("{}", tin)
Fmt ==
    /\ pc = "parsed"
    /\ result.tag = "Ok"
    /\ shown' = fmt(result)
    /\ pc' = "shown"
    /\ UNCHANGED <<input, result, text, reparsed>>

Next == Parse \/ Into \/ FromStr \/ Fmt

Spec == Init /\ [][Next]_vars

(***************************************************************************)
(* The properties.  They are stated on the input string itself, with the   *)
(* weights, offsets and day counts written out, and compared with what     *)
(* the operations left in the state.                                       *)
(***************************************************************************)
\* result holds parse(input)
Parsed == pc # "ready"

AllDigits == \A i \in 1..Len(input) : input[i] \in 48..57

\* d(i) is the decimal digit at the 0-based position i of the input
d(i) == input[i + 1] - 48

IsErr(r, e) == r.tag = "Err" /\ r.err = e

ErrorKinds == {"InvalidLength", "NonNumericValue", "InvalidChecksum", "InvalidDate"}

PersonR1 ==
    (3 * d(0) + 7 * d(1) + 6 * d(2) + 1 * d(3) + 8 * d(4) + 9 * d(5)
        + 4 * d(6) + 5 * d(7) + 2 * d(8)) % 11

PersonR2 ==
    (5 * d(0) + 4 * d(1) + 3 * d(2) + 2 * d(3) + 7 * d(4) + 6 * d(5)
        + 5 * d(6) + 4 * d(7) + 3 * d(8) + 2 * d(9)) % 11

PersonChecksumsPass ==
    /\ (PersonR1 + d(9)) % 11 \in 0..3
    /\ (PersonR2 + d(10)) % 11 = 0

\* an all-digit input of 11 characters has been parsed
PersonParsed == Parsed /\ Len(input) = 11 /\ AllDigits

\* an all-digit input of 9 characters has been parsed
OrgParsed == Parsed /\ Len(input) = 9 /\ AllDigits

CategoryOffset ==
    CASE d(2) \in {0, 1} -> 0
      [] d(2) \in {4, 5} -> 40
      [] d(2) \in {6, 7} -> 60
      [] d(2) \in {8, 9} -> 80
      [] OTHER -> 0

CategoryName ==
    CASE d(2) \in {0, 1} -> "Normal"
      [] d(2) \in {4, 5} -> "HNumber"
      [] d(2) \in {6, 7} -> "Anonymous"
      [] d(2) \in {8, 9} -> "Synthetic"
      [] OTHER -> "Reserved"

BirthMonth == 10 * d(2) + d(3) - CategoryOffset

BirthDay == IF d(0) \in 0..3 THEN 10 * d(0) + d(1) ELSE 10 * d(0) + d(1) - 40

BirthYear == 10 * d(4) + d(5)

DaysInBirthMonth ==
    CASE BirthMonth \in {1, 3, 5, 7, 8, 10, 12} -> 31
      [] BirthMonth \in {4, 6, 9, 11} -> 30
      [] BirthMonth = 2 -> IF BirthYear % 4 = 0 THEN 29 ELSE 28
      [] OTHER -> 0

\* C1: an input whose byte length is neither 9 nor 11 gives InvalidLength
\* whatever its bytes; an input of byte length 9 or 11 with at least one
\* byte outside '0'..'9' gives NonNumericValue whatever its digits.
C1_GatePrecedence ==
    Parsed =>
        /\ Len(input) \notin {9, 11} => IsErr(result, "InvalidLength")
        /\ (Len(input) \in {9, 11} /\ ~AllDigits) => IsErr(result, "NonNumericValue")

\* a two-byte character in a string of 9 bytes whose other bytes are the
\* first digits of a valid organization number
C1_Witness ==
    /\ pc = "parsed"
    /\ Len(input) = 9
    /\ input[9] = 169
    /\ \A i \in 1..7 : input[i] \in 48..57
    /\ IsErr(result, "NonNumericValue")

\* C2: an all-digit input of 11 characters gives InvalidChecksum exactly
\* when (r1 + d[9]) mod 11 is outside 0..3 or (r2 + d[10]) mod 11 is not 0;
\* the base 110100000 succeeds with the tails 00, 19, 27 and 35.
C2_PersonalChecksum ==
    PersonParsed =>
        /\ IsErr(result, "InvalidChecksum") <=> ~PersonChecksumsPass
        /\ (/\ \A i \in 0..8 : d(i) = <<1, 1, 0, 1, 0, 0, 0, 0, 0>>[i + 1]
            /\ <<d(9), d(10)>> \in {<<0, 0>>, <<1, 9>>, <<2, 7>>, <<3, 5>>})
              => result.tag = "Ok"

\* the last value of the window of the first pass is accepted
C2_Witness ==
    /\ PersonParsed
    /\ (PersonR1 + d(9)) % 11 = 3
    /\ (PersonR2 + d(10)) % 11 = 0
    /\ result.tag = "Ok"

OrgR ==
    (3 * d(0) + 2 * d(1) + 7 * d(2) + 6 * d(3) + 5 * d(4) + 4 * d(5)
        + 3 * d(6) + 2 * d(7)) % 11

OrgC == (11 - OrgR) % 11

\* C3: an all-digit input of 9 characters succeeds, as an OrgNumber,
\* exactly when c = (11 - r) mod 11 is not 10 and d[8] = c; every other
\* such input gives InvalidChecksum (so none succeeds when r = 1).
C3_OrgChecksum ==
    OrgParsed =>
        IF OrgC # 10 /\ d(8) = OrgC
        THEN result.tag = "Ok" /\ result.variant = "OrgNumber"
        ELSE IsErr(result, "InvalidChecksum")

\* the remainder 0, whose check digit is (11 - 0) mod 11 = 0
C3_Witness ==
    /\ OrgParsed
    /\ OrgR = 0
    /\ d(8) = 0
    /\ result.variant = "OrgNumber"

DateInvalid ==
    \/ d(2) \in {2, 3}
    \/ d(0) \in {8, 9}
    \/ BirthMonth \notin 1..12
    \/ BirthDay = 0
    \/ BirthDay > DaysInBirthMonth

\* C4: an all-digit input of 11 characters that passes both checksum
\* passes gives InvalidDate exactly when its category digit is 2 or 3, its
\* day band is 8 or 9, its month is outside 1..12, or its day is 0 or
\* greater than the day count of the month; otherwise it succeeds.
C4_DateAcceptance ==
    (PersonParsed /\ PersonChecksumsPass) =>
        IF DateInvalid THEN IsErr(result, "InvalidDate") ELSE result.tag = "Ok"

\* the 29th of February of a leap year whose last digit is no multiple of 4
C4_Witness ==
    /\ PersonParsed
    /\ BirthDay = 29
    /\ BirthMonth = 2
    /\ BirthYear = 12
    /\ result.tag = "Ok"

\* C5: a success on 11 characters is an FNumber exactly when d[0] is in
\* 0..3 and a DNumber exactly when d[0] is in 4..7; its category follows
\* d[2]; its stored digits are the 11 input digits unchanged.
C5_Classification ==
    (Parsed /\ Len(input) = 11 /\ result.tag = "Ok") =>
        /\ result.variant = "FNumber" <=> d(0) \in 0..3
        /\ result.variant = "DNumber" <=> d(0) \in 4..7
        /\ get_kind(result) = CategoryName
        /\ get_value(result) = [i \in 1..11 |-> d(i - 1)]

\* a D-number of the Synthetic category
C5_Witness ==
    /\ pc = "parsed"
    /\ Len(input) = 11
    /\ result.tag = "Ok"
    /\ result.variant = "DNumber"
    /\ get_kind(result) = "Synthetic"
    /\ d(0) = 7

Repeated == Len(input) = 11 /\ \A i \in 1..11 : input[i] = input[1]

\* C6 as stated: every string of one decimal digit 0..9 repeated 11 times
\* gives InvalidChecksum.
C6_Original ==
    (Parsed /\ Repeated /\ input[1] \in 48..57) => IsErr(result, "InvalidChecksum")

\* C6 amended: every string of one decimal digit 1..9 repeated 11 times
\* gives InvalidChecksum; the string of 11 zeros passes both checksum
\* passes and gives InvalidDate.
C6_RepeatedDigits ==
    (Parsed /\ Repeated) =>
        /\ input[1] \in 49..57 => IsErr(result, "InvalidChecksum")
        /\ input[1] = 48 => IsErr(result, "InvalidDate")

\* "11111111111", which passes the first pass and fails the second
C6_Witness ==
    /\ Parsed
    /\ Repeated
    /\ input[1] = 49
    /\ (PersonR1 + d(9)) % 11 \in 0..3
    /\ IsErr(result, "InvalidChecksum")

\* C7: the canonical string of a successfully parsed value parses again,
\* to a value equal to the first (same variant, category and digits).
C7_RoundTrip ==
    pc = "reparsed" =>
        /\ reparsed.tag = "Ok"
        /\ reparsed = result
        /\ text = input

\* an organization number, whose string has 9 characters
C7_Witness ==
    /\ pc = "reparsed"
    /\ result.variant = "OrgNumber"
    /\ Len(text) = 9
    /\ reparsed.tag = "Ok"

ExpectedLabel ==
    IF Len(input) = 9 THEN <<>>
    ELSE CASE d(2) \in {0, 1} -> <<>>
           [] d(2) \in {4, 5} -> <<32, 40, 72, 45, 78, 117, 109, 98, 101, 114, 41, 32>>
           [] d(2) \in {6, 7} -> <<32, 40, 65, 110, 111, 110, 121, 109, 111, 117, 115, 41, 32>>
           [] d(2) \in {8, 9} -> <<32, 40, 83, 121, 110, 116, 104, 101, 116, 105, 99, 41, 32>>

InputDigits == digits_of(input)

\* C9: parse panics on no input: no unsigned step leaves its width and no
\* index is out of range, so that the result is a value or one of the four
\* error kinds; the remainders are at most 10, and the day and month fields
\* at most 99.
C9_PanicFreedom ==
    /\ Parsed =>
          /\ result.tag \in {"Ok", "Err"}
          /\ result.tag = "Err" => result.err \in ErrorKinds
    /\ pc = "reparsed" => reparsed.tag \in {"Ok", "Err"}
    /\ (Parsed /\ Len(input) \in {9, 11} /\ AllDigits) =>
          /\ weighted_sum(SubSeq(InputDigits, 1, 8), SEQUENCE_ORG_CHECKSUM_DIGITS, 1) % 11 <= 10
          /\ InU32(weighted_sum(SubSeq(InputDigits, 1, 10), SEQUENCE_SECOND_CHECKSUM_DIGITS, 1))
          /\ raw_day(InputDigits) <= 99
          /\ raw_month(InputDigits) <= 99
          /\ d(0) \in 4..7 => raw_day(InputDigits) >= 40

\* the smallest day field of the D band and the smallest month field of the
\* Synthetic band reach the date stage: 40 - 40 and 80 - 80 are evaluated
C9_Witness ==
    /\ PersonParsed
    /\ PersonChecksumsPass
    /\ raw_day(InputDigits) = 40
    /\ raw_month(InputDigits) = 80
    /\ IsErr(result, "InvalidDate")

\* the input reaches the category lookup and the lookup succeeds
LookupSucceeds ==
    /\ PersonParsed
    /\ PersonChecksumsPass
    /\ check_kind(InputDigits[3]) # "InvalidDate"

\* the month that parse hands to is_valid_date
MonthGiven == get_base_month(check_kind(InputDigits[3]), raw_month(InputDigits))

\* C10 as stated: whenever the category lookup succeeds, the month is in
\* 1..12.
C10_Original ==
    LookupSucceeds => MonthGiven \in 1..12

\* C10 amended: whenever the category lookup succeeds, the month is in
\* 0..19 (the subtraction never underflows); a month outside 1..12 reaches
\* the date stage, which rejects it with InvalidDate.
C10_MonthRange ==
    LookupSucceeds =>
        /\ MonthGiven \in 0..19
        /\ MonthGiven \notin 1..12 => IsErr(result, "InvalidDate")

\* the month field 59 of the H band: month 19 reaches the date stage
C10_Witness ==
    /\ LookupSucceeds
    /\ raw_month(InputDigits) = 59
    /\ MonthGiven = 19
    /\ IsErr(result, "InvalidDate")

====
